---- MODULE Spec2Model ----
(***************************************************************************)
(* Model of the AMP story ad preview tool: the preview widget              *)
(* (AmpStoryAdPreview: constructor, updateInner, updateOuter, the HTML     *)
(* patch functions and setMetaCtaLink) and the build script (bin/build.js).*)
(*                                                                         *)
(* HTML strings are sequences of tags; a tag is a record                   *)
(*   [tag, name, content, attrs]                                           *)
(* where name/content are the values getAttribute would return for the     *)
(* attributes "name" and "content" (Null when the attribute is absent)     *)
(* and attrs is the sequence of its other attributes.                      *)
(***************************************************************************)
EXTENDS Integers, Sequences, FiniteSets, TLC

\* ------------------------------------------------------------------ bounds
MaxCalls == 2
MaxTags == 2
NumBundles == 3

\* ------------------------------------------------------- HTML as tag lists
Null == "<null>"

Tag(t, as) == [tag |-> t, name |-> Null, content |-> Null, attrs |-> as]
Meta(n, c) == [tag |-> "meta", name |-> n, content |-> c, attrs |-> <<>>]

defaultCtaType == "LEARN_MORE"
defaultCtaUrl == "https://amp.dev"

defaultIframeSandbox == Tag("sandbox", <<"allow-scripts", "allow-top-navigation">>)

adSandboxPlaceholder == Tag("{{ adSandbox }}", <<>>)

httpsCircumventionPatch == Tag("script", <<"httpsCircumvention">>)

cssPatch == Tag("style", <<"storyCss">>)

\* navigationPatch.replace('$pageId$', pageId)
navigationPatch(pageId) == Tag("script", <<"navigate", pageId>>)

\* the least index in hits, 0 when there is none
First(hits) == IF hits = {} THEN 0 ELSE CHOOSE i \in hits : \A j \in hits : i <= j

\* String.prototype.replace on the first match only: the tag at index i
\* (0: no match) gives way to the tags repl
ReplaceAt(docStr, i, repl) ==
  IF i = 0 THEN docStr
  ELSE SubSeq(docStr, 1, i - 1) \o repl \o SubSeq(docStr, i + 1, Len(docStr))

\* the literal '<head>'
IsLiteralHead(t) == t.tag = "head" /\ t.attrs = <<>>

\* /<(body[^>]*)>/
IsBody(t) == t.tag = "body"

addScriptToHead(docStr, headContent) ==
  LET i == First({k \in DOMAIN docStr : IsLiteralHead(docStr[k])})
  IN IF i = 0 THEN docStr ELSE ReplaceAt(docStr, i, <<docStr[i], headContent>>)

setBodyAmpStoryVisible(docStr) ==
  LET i == First({k \in DOMAIN docStr : IsBody(docStr[k])})
  IN IF i = 0 THEN docStr
     ELSE ReplaceAt(docStr, i, <<[docStr[i] EXCEPT !.attrs = Append(@, "amp-story-visible")]>>)

insertHttpsCircumventionPatch(docStr) == addScriptToHead(docStr, httpsCircumventionPatch)

storyNavigationPatch(docStr, pageId) == addScriptToHead(docStr, navigationPatch(pageId))

storyCssPatch(docStr) == addScriptToHead(docStr, cssPatch)

patch(docStr) == setBodyAmpStoryVisible(insertHttpsCircumventionPatch(docStr))

patchOuter(str, pageId) == storyNavigationPatch(storyCssPatch(str), pageId)

\* ------------------------------------------------------------ CTA metadata
\* CTA_TYPES: the allow-list of call-to-action types and their button texts
CtaKeys == {"LEARN_MORE", "SHOP_NOW", "INSTALL"}
CTA_TYPES(type) ==
  CASE type = "LEARN_MORE" -> "Learn More"
    [] type = "SHOP_NOW" -> "Shop Now"
    [] type = "INSTALL" -> "Install Now"
    [] OTHER -> Null

\* lower-casing of the attribute names that occur in the documents (flag i)
Lower(s) == IF s = "AMP-CTA-TYPE" THEN "amp-cta-type" ELSE s

\* metaCtaRe: <meta ... name=['"]?amp-cta-(type|url)['"]?[^>]*>, flags gi.
\* Nothing anchors the end of the name, so a longer name with that prefix
\* matches too.
metaCtaRe(t) ==
  /\ t.tag = "meta"
  /\ Lower(t.name) \in {"amp-cta-type", "amp-cta-url", "amp-cta-types"}

\* docStr.match(metaCtaRe) parsed back into <meta> elements, in document order
MatchedMetas(docStr) == SelectSeq(docStr, metaCtaRe)

RECURSIVE CtaLoop(_, _, _)
\* the for-loop of setMetaCtaLink over metas, from (type, url)
CtaLoop(metas, type, url) ==
  IF metas = <<>> THEN [type |-> type, url |-> url]
  ELSE LET meta == Head(metas)
           type2 == IF meta.name = "amp-cta-type" THEN meta.content ELSE type
           url2 == IF meta.name = "amp-cta-url" THEN meta.content ELSE url
       IN CtaLoop(Tail(metas), type2, url2)

ResolveCta(docStr) == CtaLoop(MatchedMetas(docStr), defaultCtaType, defaultCtaUrl)

\* assert(CTA_TYPES[type], ...) throws when the type is not a key
CtaThrows(docStr) == ResolveCta(docStr).type \notin CtaKeys

\* the link after setMetaCtaLink(win, docStr, ctaLink): href is set before
\* the assertion, textContent only when the assertion passes
setMetaCtaLink(docStr, ctaLink) ==
  LET cta == ResolveCta(docStr)
  IN [href |-> cta.url,
      text |-> IF CtaThrows(docStr) THEN ctaLink.text ELSE CTA_TYPES(cta.type)]

\* ------------------------------------------------------ documents in play
Head_ == Tag("head", <<>>)
Body_ == Tag("body", <<>>)

\* data-template values of the host element
Templates ==
  { <<Head_, Tag("amp-story", <<"template">>), adSandboxPlaceholder, adSandboxPlaceholder>> }

\* story documents handed to updateOuter
StoryDocs == { <<Head_, Tag("amp-story", <<"edited">>)>> }

AdShop == <<Head_, Meta("amp-cta-type", "SHOP_NOW"), Meta("amp-cta-url", "https://shop.example"), Body_>>
AdPlain == <<Head_, Body_>>
AdBogus == <<Head_, Meta("amp-cta-type", "BOGUS"), Body_>>

\* valid ad documents handed to updateInner / updateOuter
AdDocs == {AdShop, AdPlain}

\* the ad documents of the caller that overlaps its calls
OverlapAdDocs == {AdShop}

\* the ad documents of the caller that hands in an unknown CTA type
FaultyAdDocs == {AdShop, AdBogus}

\* ------------------------------------------------------------------- state
VARIABLES
  hostHasTemplate,  \* the host element carries a data-template attribute
  hostTemplate,     \* its value
  rendered,         \* WrappedIframe() has been rendered into the host
  ctor,             \* progress of the constructor and of its promise chain
  storyDoc,         \* this.storyDoc
  storyIframe_,     \* this.storyIframe_: "none" | "pending" | "resolved"
  adIframe_,        \* this.adIframe_: -1 unset, 0 pending promise, g > 0 the ad iframe of story document g
  storyCtaLink_,    \* this.storyCtaLink_: -1 unset, 0 pending promise, g > 0 the link of story document g
  frames,           \* the documents written into the story iframe, oldest first; the last is the current one
  loaded,           \* the current story document has fired its load event
  calls,            \* the update calls made so far (callers' and updateOuter's own)
  microtasks,       \* the promise job queue
  siWaiters,        \* continuations waiting for storyIframe_ to resolve
  loadWaiters,      \* continuations waiting in whenIframeLoaded
  awaited,          \* callers' calls whose promise the caller has not yet seen settle
  ctaDoc, ctaLink, ctaPc,                     \* setMetaCtaLink applied to one document
  prod, buildPc, bundles, rollups, fatals     \* bin/build.js

widgetVars == <<hostHasTemplate, hostTemplate, rendered, ctor, storyDoc, storyIframe_,
                adIframe_, storyCtaLink_, frames, loaded, calls, microtasks, siWaiters,
                loadWaiters, awaited>>
ctaVars == <<ctaDoc, ctaLink, ctaPc>>
buildVars == <<prod, buildPc, bundles, rollups, fatals>>
vars == <<widgetVars, ctaVars, buildVars>>

NoLink == [href |-> Null, text |-> Null]

WidgetInit ==
  /\ hostHasTemplate \in BOOLEAN
  /\ hostTemplate \in IF hostHasTemplate THEN Templates \cup {<<>>} ELSE {<<>>}
  /\ rendered = FALSE
  /\ ctor = "new"
  /\ storyDoc = <<>>
  /\ storyIframe_ = "none"
  /\ adIframe_ = -1
  /\ storyCtaLink_ = -1
  /\ frames = <<>>
  /\ loaded = TRUE
  /\ calls = <<>>
  /\ microtasks = <<>>
  /\ siWaiters = <<>>
  /\ loadWaiters = <<>>
  /\ awaited = {}

CtaIdle ==
  /\ ctaDoc = <<>>
  /\ ctaLink = NoLink
  /\ ctaPc = "idle"

BuildIdle ==
  /\ prod = FALSE
  /\ buildPc = "idle"
  /\ bundles = <<>>
  /\ rollups = 0
  /\ fatals = 0

Init == WidgetInit /\ CtaIdle /\ BuildIdle

\* ------------------------------------------------------------- constructor
\* assert(template, ...) of getDataTemplate passes
Truthy(template) == template # <<>>

IsPlaceholder(t) == t = adSandboxPlaceholder

\* mutant: the placeholder is left in place
TemplateKept(template) == template

\* getDataTemplate(element).replace('{{ adSandbox }}', defaultIframeSandbox)
TemplateToStoryDoc(template) ==
  ReplaceAt(template, First({k \in DOMAIN template : IsPlaceholder(template[k])}),
            <<defaultIframeSandbox>>)

\* new AmpStoryAdPreview(win, element)
Construct ==
  /\ ctor = "new"
  /\ hostHasTemplate' = FALSE
  /\ IF hostHasTemplate /\ Truthy(hostTemplate)
       THEN /\ storyDoc' = TemplateToStoryDoc(hostTemplate)
            /\ storyIframe_' = "pending"
            /\ adIframe_' = 0
            /\ storyCtaLink_' = 0
            /\ rendered' = TRUE
            /\ ctor' = "attaching"
       ELSE /\ ctor' = "threw"
            /\ UNCHANGED <<storyDoc, storyIframe_, adIframe_, storyCtaLink_, rendered>>
  /\ UNCHANGED <<hostTemplate, frames, loaded, calls, microtasks, siWaiters, loadWaiters, awaited>>
  /\ UNCHANGED <<ctaVars, buildVars>>

\* a document written into the story iframe by writer `by` (0: the constructor)
NewFrame(doc, by) == [doc |-> doc, by |-> by, ad |-> <<>>, adBy |-> 0, link |-> NoLink]

\* writeToIframe(storyIframe, doc): the document replaces the current one and
\* starts loading
writeToStoryIframe(doc, by) ==
  /\ frames' = Append(frames, NewFrame(doc, by))
  /\ loaded' = FALSE

\* untilAttached(element, '.iframe').then(whenIframeLoaded) resolves, and the
\* constructor's .then(iframe => { writeToIframe(...); return whenIframeLoaded(iframe) }) runs
InitialWrite ==
  /\ ctor = "attaching"
  /\ writeToStoryIframe(patchOuter(storyDoc, "page-1"), 0)
  /\ ctor' = "loading"
  /\ UNCHANGED <<hostHasTemplate, hostTemplate, rendered, storyDoc, storyIframe_, adIframe_,
                 storyCtaLink_, calls, microtasks, siWaiters, loadWaiters, awaited>>
  /\ UNCHANGED <<ctaVars, buildVars>>

Job(t, c) == [t |-> t, c |-> c]

\* the story iframe's load event (a task: it runs when no promise job is queued)
Load ==
  /\ ~loaded
  /\ microtasks = <<>>
  /\ loaded' = TRUE
  /\ IF ctor = "loading"
       THEN /\ ctor' = "ready"
            /\ storyIframe_' = "resolved"
            /\ microtasks' = <<Job("ctorAd", 0), Job("ctorLink", 0)>> \o siWaiters
            /\ siWaiters' = <<>>
            /\ UNCHANGED loadWaiters
       ELSE /\ microtasks' = loadWaiters
            /\ loadWaiters' = <<>>
            /\ UNCHANGED <<ctor, storyIframe_, siWaiters>>
  /\ UNCHANGED <<hostHasTemplate, hostTemplate, rendered, storyDoc, adIframe_, storyCtaLink_,
                 frames, calls, awaited>>
  /\ UNCHANGED <<ctaVars, buildVars>>

\* iframe.contentDocument.querySelector(selector): the element of the
\* document currently in the story iframe
querySelector == Len(frames)

\* this.adIframe_ = awaitSelect(this.storyIframe_, 'iframe')
CtorSelectAd ==
  /\ microtasks # <<>> /\ Head(microtasks).t = "ctorAd"
  /\ adIframe_' = querySelector
  /\ microtasks' = Tail(microtasks)
  /\ UNCHANGED <<hostHasTemplate, hostTemplate, rendered, ctor, storyDoc, storyIframe_,
                 storyCtaLink_, frames, loaded, calls, siWaiters, loadWaiters, awaited>>
  /\ UNCHANGED <<ctaVars, buildVars>>

\* this.storyCtaLink_ = awaitSelect(this.storyIframe_, '.i-amphtml-story-ad-link')
CtorSelectLink ==
  /\ microtasks # <<>> /\ Head(microtasks).t = "ctorLink"
  /\ storyCtaLink_' = querySelector
  /\ microtasks' = Tail(microtasks)
  /\ UNCHANGED <<hostHasTemplate, hostTemplate, rendered, ctor, storyDoc, storyIframe_,
                 adIframe_, frames, loaded, calls, siWaiters, loadWaiters, awaited>>
  /\ UNCHANGED <<ctaVars, buildVars>>

\* ----------------------------------------------------------------- updates
\* left alone by every step of an update
ctorVars == <<hostHasTemplate, hostTemplate, rendered, ctor, storyIframe_, storyCtaLink_>>

Running == {i \in DOMAIN calls : calls[i].status = "running"}
TopLevel == {i \in DOMAIN calls : calls[i].parent = 0}

\* an async call of updateInner / updateOuter suspended at its first await
NewCall(kind, dirty, ad, sw, parent, pc) ==
  [kind |-> kind, dirty |-> dirty, ad |-> ad, sw |-> sw, parent |-> parent, pc |-> pc,
   status |-> "running",
   sel |-> 0,      \* the ad iframe its awaitSelect found
   target |-> 0,   \* the value of this.adIframe_ it read for its write
   adGen |-> 0,    \* the story document whose ad iframe it wrote, 0 before
   adCur |-> 0,    \* the story document that was current when it wrote
   during |-> Running \ {parent}]   \* the calls in flight when it was made

\* `await this.storyIframe_` / `this.storyIframe_.then(...)`: a job now when
\* the promise is resolved, a waiter otherwise
AwaitStoryIframe(queue, c) ==
  IF storyIframe_ = "resolved"
    THEN /\ microtasks' = Append(queue, Job("call", c))
         /\ UNCHANGED siWaiters
    ELSE /\ siWaiters' = Append(siWaiters, Job("call", c))
         /\ microtasks' = queue

\* the caller invokes updateInner(dirty, switchingContext)
UpdateInner(dirty, switchingContext) ==
  /\ ctor \notin {"new", "threw"}
  /\ Cardinality(TopLevel) < MaxCalls
  /\ LET c == Len(calls) + 1
     IN /\ calls' = Append(calls, NewCall("inner", <<>>, dirty, switchingContext, 0, "write"))
        /\ awaited' = awaited \cup {c}
        /\ AwaitStoryIframe(microtasks, c)
  /\ UNCHANGED <<ctorVars, storyDoc, adIframe_, frames, loaded, loadWaiters>>
  /\ UNCHANGED <<ctaVars, buildVars>>

\* the caller invokes updateOuter(dirty, dirtyInner, switchingContext)
UpdateOuter(dirty, dirtyInner, switchingContext) ==
  /\ ctor \notin {"new", "threw"}
  /\ Cardinality(TopLevel) < MaxCalls
  /\ storyDoc' = dirty
  /\ LET c == Len(calls) + 1
         pc == IF switchingContext THEN "write" ELSE "select"
     IN /\ calls' = Append(calls, NewCall("outer", dirty, dirtyInner, switchingContext, 0, pc))
        /\ awaited' = awaited \cup {c}
        /\ AwaitStoryIframe(microtasks, c)
  /\ UNCHANGED <<ctorVars, adIframe_, frames, loaded, loadWaiters>>
  /\ UNCHANGED <<ctaVars, buildVars>>

\* the job at the head of the queue resumes call c of `kind` at `pc`
Resumes(c, kind, pc) ==
  /\ microtasks # <<>>
  /\ Head(microtasks) = Job("call", c)
  /\ calls[c].kind = kind
  /\ calls[c].pc = pc

\* the promise of call c settles; a caller's call wakes the caller
Settled(queue, c) ==
  IF calls[c].parent = 0 THEN Append(queue, Job("caller", c)) ELSE queue

\* mutant: the navigation patch goes into every document updateInner writes
InnerStoryDocAlwaysPatched(switchingContext) == patchOuter(storyDoc, "page-1")

\* the story document updateInner writes
InnerStoryDoc(switchingContext) ==
  IF switchingContext THEN patchOuter(storyDoc, "page-1") ELSE storyCssPatch(storyDoc)

\* updateInner: writeToIframe(await this.storyIframe_, ...), then `await this.storyIframe_`
InnerWrite(c) ==
  /\ Resumes(c, "inner", "write")
  /\ writeToStoryIframe(InnerStoryDoc(calls[c].sw), c)
  /\ calls' = [calls EXCEPT ![c].pc = "awaitLoad"]
  /\ microtasks' = Append(Tail(microtasks), Job("call", c))
  /\ UNCHANGED <<ctorVars, storyDoc, adIframe_, siWaiters, loadWaiters, awaited>>
  /\ UNCHANGED <<ctaVars, buildVars>>

\* updateOuter: writeToIframe(await this.storyIframe_, patchOuter(dirty, 'cover'))
OuterWrite(c) ==
  /\ Resumes(c, "outer", "write")
  /\ writeToStoryIframe(patchOuter(calls[c].dirty, "cover"), c)
  /\ calls' = [calls EXCEPT ![c].pc = "awaitLoad"]
  /\ microtasks' = Append(Tail(microtasks), Job("call", c))
  /\ UNCHANGED <<ctorVars, storyDoc, adIframe_, siWaiters, loadWaiters, awaited>>
  /\ UNCHANGED <<ctaVars, buildVars>>

\* await whenIframeLoaded(await this.storyIframe_), in either update
AwaitLoad(c) ==
  /\ \E kind \in {"inner", "outer"} : Resumes(c, kind, "awaitLoad")
  /\ calls' = [calls EXCEPT ![c].pc = "selectStart"]
  /\ IF loaded
       THEN /\ microtasks' = Append(Tail(microtasks), Job("call", c))
            /\ UNCHANGED loadWaiters
       ELSE /\ microtasks' = Tail(microtasks)
            /\ loadWaiters' = Append(loadWaiters, Job("call", c))
  /\ UNCHANGED <<ctorVars, storyDoc, adIframe_, frames, loaded, siWaiters, awaited>>
  /\ UNCHANGED <<ctaVars, buildVars>>

\* awaitSelect(this.storyIframe_, 'iframe') is called: its .then callback is queued
SelectStart(c) ==
  /\ \E kind \in {"inner", "outer"} : Resumes(c, kind, "selectStart")
  /\ calls' = [calls EXCEPT ![c].pc = "select"]
  /\ microtasks' = Append(Tail(microtasks), Job("call", c))
  /\ UNCHANGED <<ctorVars, storyDoc, adIframe_, frames, loaded, siWaiters, loadWaiters, awaited>>
  /\ UNCHANGED <<ctaVars, buildVars>>

\* the callback of awaitSelect runs: the ad iframe is looked up
Select(c) ==
  /\ \E kind \in {"inner", "outer"} : Resumes(c, kind, "select")
  /\ calls' = [calls EXCEPT ![c].pc = "assign", ![c].sel = querySelector]
  /\ microtasks' = Append(Tail(microtasks), Job("call", c))
  /\ UNCHANGED <<ctorVars, storyDoc, adIframe_, frames, loaded, siWaiters, loadWaiters, awaited>>
  /\ UNCHANGED <<ctaVars, buildVars>>

\* mutant: updateInner keeps the ad iframe it held, as it keeps storyCtaLink_
InnerAssignKeepsAdIframe(c) ==
  /\ Resumes(c, "inner", "assign")
  /\ calls' = [calls EXCEPT ![c].pc = "setCta"]
  /\ microtasks' = Append(Tail(microtasks), Job("call", c))
  /\ UNCHANGED <<ctorVars, storyDoc, adIframe_, frames, loaded, siWaiters, loadWaiters, awaited>>
  /\ UNCHANGED <<ctaVars, buildVars>>

\* updateInner: this.adIframe_ = <the element found>, then `await this.storyCtaLink_`
InnerAssign(c) ==
  /\ Resumes(c, "inner", "assign")
  /\ adIframe_' = calls[c].sel
  /\ calls' = [calls EXCEPT ![c].pc = "setCta"]
  /\ microtasks' = Append(Tail(microtasks), Job("call", c))
  /\ UNCHANGED <<ctorVars, storyDoc, frames, loaded, siWaiters, loadWaiters, awaited>>
  /\ UNCHANGED <<ctaVars, buildVars>>

\* updateInner: setMetaCtaLink(this.win, dirty, <the link>), which may throw,
\* then `await this.adIframe_`
InnerSetCta(c) ==
  /\ Resumes(c, "inner", "setCta")
  /\ frames' = [frames EXCEPT ![storyCtaLink_].link = setMetaCtaLink(calls[c].ad, @)]
  /\ IF CtaThrows(calls[c].ad)
       THEN /\ calls' = [calls EXCEPT ![c].pc = "done", ![c].status = "rejected"]
            /\ microtasks' = Settled(Tail(microtasks), c)
       ELSE /\ calls' = [calls EXCEPT ![c].pc = "writeAd", ![c].target = adIframe_]
            /\ microtasks' = Append(Tail(microtasks), Job("call", c))
  /\ UNCHANGED <<ctorVars, storyDoc, adIframe_, loaded, siWaiters, loadWaiters, awaited>>
  /\ UNCHANGED <<ctaVars, buildVars>>

\* updateInner: writeToIframe(<ad iframe>, patch(dirty)); the call returns
InnerWriteAd(c) ==
  /\ Resumes(c, "inner", "writeAd")
  /\ frames' = [frames EXCEPT ![calls[c].target].ad = patch(calls[c].ad),
                              ![calls[c].target].adBy = c]
  /\ calls' = [calls EXCEPT ![c].pc = "done", ![c].status = "resolved",
                            ![c].adGen = calls[c].target, ![c].adCur = Len(frames)]
  /\ microtasks' = Settled(Tail(microtasks), c)
  /\ UNCHANGED <<ctorVars, storyDoc, adIframe_, loaded, siWaiters, loadWaiters, awaited>>
  /\ UNCHANGED <<ctaVars, buildVars>>

\* updateOuter: this.adIframe_ = <the element found>; this.updateInner(dirtyInner, false)
\* runs to its first await and is not awaited; the call returns
OuterAssign(c) ==
  /\ Resumes(c, "outer", "assign")
  /\ adIframe_' = calls[c].sel
  /\ LET inner == Len(calls) + 1
         done == [calls EXCEPT ![c].pc = "done", ![c].status = "resolved"]
     IN /\ calls' = Append(done, NewCall("inner", <<>>, calls[c].ad, FALSE, c, "write"))
        /\ microtasks' = Settled(Append(Tail(microtasks), Job("call", inner)), c)
  /\ UNCHANGED <<ctorVars, storyDoc, frames, loaded, siWaiters, loadWaiters, awaited>>
  /\ UNCHANGED <<ctaVars, buildVars>>

\* the caller's `await` of call c resumes
CallerResume(c) ==
  /\ microtasks # <<>>
  /\ Head(microtasks) = Job("caller", c)
  /\ awaited' = awaited \ {c}
  /\ microtasks' = Tail(microtasks)
  /\ UNCHANGED <<ctorVars, storyDoc, adIframe_, frames, loaded, calls, siWaiters, loadWaiters>>
  /\ UNCHANGED <<ctaVars, buildVars>>

\* ------------------------------------------- setMetaCtaLink on its own
\* the constructor has not run: the widget as WidgetInit has it, no template
WidgetIdle ==
  /\ hostHasTemplate = FALSE
  /\ hostTemplate = <<>>
  /\ rendered = FALSE
  /\ ctor = "new"
  /\ storyDoc = <<>>
  /\ storyIframe_ = "none"
  /\ adIframe_ = -1
  /\ storyCtaLink_ = -1
  /\ frames = <<>>
  /\ loaded = TRUE
  /\ calls = <<>>
  /\ microtasks = <<>>
  /\ siWaiters = <<>>
  /\ loadWaiters = <<>>
  /\ awaited = {}

\* the tags of the ad documents setMetaCtaLink is tried on
TagPool ==
  { Meta("amp-cta-type", "SHOP_NOW"), Meta("amp-cta-type", "BOGUS"), Meta("amp-cta-type", Null),
    Meta("amp-cta-url", "https://shop.example"), Meta("amp-cta-url", Null),
    Meta("AMP-CTA-TYPE", "INSTALL"), Meta("amp-cta-types", "INSTALL"),
    Meta("description", "an ad"), Head_ }

CtaDocs == UNION {[1..n -> TagPool] : n \in 0..MaxTags}

CtaInit ==
  /\ ctaDoc \in CtaDocs
  /\ ctaLink = NoLink
  /\ ctaPc = "start"
  /\ WidgetIdle

\* setMetaCtaLink(win, ctaDoc, ctaLink)
ApplyCta ==
  /\ ctaPc = "start"
  /\ ctaLink' = setMetaCtaLink(ctaDoc, ctaLink)
  /\ ctaPc' = IF CtaThrows(ctaDoc) THEN "threw" ELSE "done"
  /\ UNCHANGED <<ctaDoc, widgetVars, buildVars>>

\* ------------------------------------------------------------ bin/build.js
outputBundles == 1..NumBundles

BuildInit ==
  /\ prod \in BOOLEAN
  /\ buildPc = "start"
  /\ bundles = [b \in outputBundles |-> [write |-> "idle", min |-> "idle", built |-> 0, minified |-> 0]]
  /\ rollups = 0
  /\ fatals = 0
  /\ WidgetIdle

\* main: await build(): step('Building', ...) calls rollup(inputConfig())
StartBuild ==
  /\ buildPc = "start"
  /\ rollups' = rollups + 1
  /\ buildPc' = "rollup"
  /\ UNCHANGED <<prod, bundles, fatals, widgetVars, ctaVars>>

\* withAllBundles(cb): Promise.all(outputBundles.map(cb)) starts cb on every bundle
withAllBundles(field, started) == [b \in outputBundles |-> [bundles[b] EXCEPT ![field] = started]]

\* rollup resolves: withAllBundles(outputBundle => mainBundle.write(outputBundle))
RollupDone ==
  /\ buildPc = "rollup"
  /\ bundles' = withAllBundles("write", "writing")
  /\ buildPc' = "writing"
  /\ UNCHANGED <<prod, rollups, fatals, widgetVars, ctaVars>>

\* rollup rejects: build() and main() reject
RollupFail ==
  /\ buildPc = "rollup"
  /\ buildPc' = "failed"
  /\ UNCHANGED <<prod, bundles, rollups, fatals, widgetVars, ctaVars>>

\* mainBundle.write(outputBundle) has written its file
WriteDone(b) ==
  /\ buildPc \in {"writing", "failed"}
  /\ bundles[b].write = "writing"
  /\ bundles' = [bundles EXCEPT ![b].write = "written", ![b].built = @ + 1]
  /\ UNCHANGED <<prod, buildPc, rollups, fatals, widgetVars, ctaVars>>

\* mainBundle.write(outputBundle) rejects
WriteFail(b) ==
  /\ buildPc \in {"writing", "failed"}
  /\ bundles[b].write = "writing"
  /\ bundles' = [bundles EXCEPT ![b].write = "failed"]
  /\ UNCHANGED <<prod, buildPc, rollups, fatals, widgetVars, ctaVars>>

\* mutant: main minifies whether or not PROD is set
AfterBuildAlwaysMinifies == buildPc' = "minifying" /\ bundles' = withAllBundles("min", "reading")

\* main after `await build()`: return unless process.env.PROD, else
\* step('Minifying', () => withAllBundles(minifyBundle))
AfterBuild ==
  IF ~prod
    THEN buildPc' = "done" /\ UNCHANGED bundles
    ELSE buildPc' = "minifying" /\ bundles' = withAllBundles("min", "reading")

\* Promise.all of the bundle writes resolves: every write has resolved
BuildResolved ==
  /\ buildPc = "writing"
  /\ \A b \in outputBundles : bundles[b].write = "written"
  /\ AfterBuild
  /\ UNCHANGED <<prod, rollups, fatals, widgetVars, ctaVars>>

\* Promise.all rejects as soon as one write has rejected
BuildRejected ==
  /\ buildPc = "writing"
  /\ \E b \in outputBundles : bundles[b].write = "failed"
  /\ buildPc' = "failed"
  /\ UNCHANGED <<prod, bundles, rollups, fatals, widgetVars, ctaVars>>

\* minifyBundle: fs.readFile resolves, minify runs, fs.outputFile is called
MinifyRead(b) ==
  /\ buildPc \in {"minifying", "failed"}
  /\ bundles[b].min = "reading"
  /\ \E ok \in BOOLEAN : bundles' = [bundles EXCEPT ![b].min = IF ok THEN "writing" ELSE "failed"]
  /\ UNCHANGED <<prod, buildPc, rollups, fatals, widgetVars, ctaVars>>

\* minifyBundle: fs.outputFile(file, code) resolves or rejects
MinifyWrite(b) ==
  /\ buildPc \in {"minifying", "failed"}
  /\ bundles[b].min = "writing"
  /\ \E ok \in BOOLEAN :
       bundles' = [bundles EXCEPT ![b].min = IF ok THEN "done" ELSE "failed",
                                  ![b].minified = IF ok THEN @ + 1 ELSE @]
  /\ UNCHANGED <<prod, buildPc, rollups, fatals, widgetVars, ctaVars>>

\* Promise.all of the minifications resolves: main returns
MinifyResolved ==
  /\ buildPc = "minifying"
  /\ \A b \in outputBundles : bundles[b].min = "done"
  /\ buildPc' = "done"
  /\ UNCHANGED <<prod, bundles, rollups, fatals, widgetVars, ctaVars>>

\* Promise.all of the minifications rejects
MinifyRejected ==
  /\ buildPc = "minifying"
  /\ \E b \in outputBundles : bundles[b].min = "failed"
  /\ buildPc' = "failed"
  /\ UNCHANGED <<prod, bundles, rollups, fatals, widgetVars, ctaVars>>

\* main().catch(fatal): the process ends
Fatal ==
  /\ buildPc = "failed"
  /\ buildPc' = "fatal"
  /\ fatals' = fatals + 1
  /\ UNCHANGED <<prod, bundles, rollups, widgetVars, ctaVars>>

\* --------------------------------------------------------- specifications
\* a caller that awaits each update before it makes the next
SerialUpdateInner ==
  /\ awaited = {}
  /\ \E dirty \in AdDocs, sw \in BOOLEAN : UpdateInner(dirty, sw)

SerialUpdateOuter ==
  /\ awaited = {}
  /\ \E dirty \in StoryDocs, dirtyInner \in AdDocs, sw \in BOOLEAN :
       UpdateOuter(dirty, dirtyInner, sw)

\* a caller that makes its calls whenever it likes
OverlapUpdateInner == \E dirty \in OverlapAdDocs, sw \in BOOLEAN : UpdateInner(dirty, sw)

OverlapUpdateOuter ==
  \E dirty \in StoryDocs, dirtyInner \in OverlapAdDocs, sw \in BOOLEAN :
    UpdateOuter(dirty, dirtyInner, sw)

\* a caller that awaits each update and may hand in an unknown CTA type
FaultyUpdateInner ==
  /\ awaited = {}
  /\ \E dirty \in FaultyAdDocs, sw \in BOOLEAN : UpdateInner(dirty, sw)

FaultyUpdateOuter ==
  /\ awaited = {}
  /\ \E dirty \in StoryDocs, dirtyInner \in FaultyAdDocs, sw \in BOOLEAN :
       UpdateOuter(dirty, dirtyInner, sw)

CallIds == 1..(2 * MaxCalls)

WidgetStep ==
  \/ Construct
  \/ InitialWrite
  \/ Load
  \/ CtorSelectAd
  \/ CtorSelectLink
  \/ \E c \in CallIds : InnerWrite(c)
  \/ \E c \in CallIds : OuterWrite(c)
  \/ \E c \in CallIds : AwaitLoad(c)
  \/ \E c \in CallIds : SelectStart(c)
  \/ \E c \in CallIds : Select(c)
  \/ \E c \in CallIds : InnerAssign(c)
  \/ \E c \in CallIds : InnerSetCta(c)
  \/ \E c \in CallIds : InnerWriteAd(c)
  \/ \E c \in CallIds : OuterAssign(c)
  \/ \E c \in CallIds : CallerResume(c)

Next == WidgetStep \/ SerialUpdateInner \/ SerialUpdateOuter

\* the widget under a caller that awaits every update
Spec == Init /\ [][Next]_vars

OverlapNext == WidgetStep \/ OverlapUpdateInner \/ OverlapUpdateOuter

\* the widget under a caller that overlaps its updates
OverlapSpec == Init /\ [][OverlapNext]_vars

CtaNext == ApplyCta

CtaStart == CtaInit /\ BuildIdle

\* setMetaCtaLink on every ad document of at most MaxTags tags
CtaSpec == CtaStart /\ [][CtaNext]_vars

BuildNext ==
  \/ StartBuild
  \/ RollupDone
  \/ RollupFail
  \/ \E b \in outputBundles : WriteDone(b)
  \/ \E b \in outputBundles : WriteFail(b)
  \/ BuildResolved
  \/ BuildRejected
  \/ \E b \in outputBundles : MinifyRead(b)
  \/ \E b \in outputBundles : MinifyWrite(b)
  \/ MinifyResolved
  \/ MinifyRejected
  \/ Fatal

BuildStart == BuildInit /\ CtaIdle

\* one run of bin/build.js
BuildSpec == BuildStart /\ [][BuildNext]_vars

FaultyNext == WidgetStep \/ FaultyUpdateInner \/ FaultyUpdateOuter

\* the widget under a caller that awaits every update and hands in bad CTA types
FaultySpec == Init /\ [][FaultyNext]_vars

\* ---------------------------------------------------------------- claims
CurrentFrame == frames[Len(frames)]

\* the page ids of the navigation patches a document carries
NavPages(doc) ==
  {doc[i].attrs[2] : i \in {k \in DOMAIN doc : doc[k].tag = "script" /\ doc[k].attrs # <<>>
                                              /\ doc[k].attrs[1] = "navigate"}}

\* the call updateOuter call c has started, 0 before it has
InnerOf(c) == First({i \in DOMAIN calls : calls[i].parent = c})

\* nothing is running, queued or loading
Quiescent ==
  /\ ctor = "ready"
  /\ Running = {}
  /\ microtasks = <<>>
  /\ loadWaiters = <<>>
  /\ loaded

\* the ad iframe is looked up in this step
LookupStep ==
  \/ adIframe_ = 0 /\ adIframe_' > 0
  \/ \E c \in DOMAIN calls : calls[c].pc = "select" /\ calls'[c].pc = "assign"

\* C1: the ad iframe is looked up only when the story document last written
\* into the story iframe has finished loading.
C1_LookupAfterLoad == [][LookupStep => loaded]_vars

\* C9: when the promise of an updateOuter call has resolved, the inner update
\* it started has finished and has written its creative into the ad iframe.
C9_OuterSettlesAfterInner ==
  \A c \in DOMAIN calls :
    (calls[c].kind = "outer" /\ calls[c].status = "resolved")
      => /\ InnerOf(c) # 0
         /\ calls[InnerOf(c)].status = "resolved"
         /\ calls[InnerOf(c)].adGen > 0

\* the calls that do the work of the caller's call c: itself and, for an
\* updateOuter, the inner update it has started
WorkOf(c) == {c} \cup {i \in DOMAIN calls : calls[i].parent = c}

\* C2: an update whose ad document declares an unknown CTA type raises to its
\* caller and never writes that creative into the ad iframe, for updateInner
\* and for updateOuter alike.
C2_UnknownCtaRaises ==
  \A c \in TopLevel :
    (CtaThrows(calls[c].ad) /\ WorkOf(c) \cap Running = {})
      => /\ calls[c].status = "rejected"
         /\ \A g \in DOMAIN frames : frames[g].adBy \notin WorkOf(c)

\* C8: the link an updateInner call has set is the link of the story
\* document that is in the story iframe.
C8_RenderedLinkSet ==
  \A c \in DOMAIN calls :
    (calls[c].kind = "inner" /\ calls[c].status = "resolved" /\ calls[c].adCur = Len(frames))
      => CurrentFrame.link = setMetaCtaLink(calls[c].ad, NoLink)

\* the caller's most recent call, and the call that writes its creative
LastCall == CHOOSE c \in TopLevel : \A d \in TopLevel : d <= c
LastOuters == {c \in TopLevel : calls[c].kind = "outer"}

\* the story documents updateInner, updateOuter and the constructor derive from str
DerivedFrom(str) == {storyCssPatch(str), patchOuter(str, "page-1"), patchOuter(str, "cover")}

\* the first placeholder of the template, if it has one, gives way to the
\* sandbox value; nothing else changes
SandboxFilled(template, doc) ==
  /\ Len(doc) = Len(template)
  /\ \A i \in DOMAIN template :
       doc[i] = IF /\ template[i] = adSandboxPlaceholder
                   /\ \A j \in 1..(i - 1) : template[j] # adSandboxPlaceholder
                  THEN defaultIframeSandbox
                  ELSE template[i]

\* C10: once a serial sequence of updates with valid documents has settled,
\* the story iframe holds a document derived from the current storyDoc (the
\* dirty of the last updateOuter, the initial template if there was none) and
\* the ad iframe of that document holds patch(d), d the creative of the last call.
C10_SerialFinalState ==
  (Quiescent /\ TopLevel # {})
    => /\ CurrentFrame.doc \in DerivedFrom(storyDoc)
       /\ IF LastOuters = {}
            THEN SandboxFilled(hostTemplate, storyDoc)
            ELSE storyDoc = calls[CHOOSE c \in LastOuters : \A d \in LastOuters : d <= c].dirty
       /\ CurrentFrame.ad = patch(calls[LastCall].ad)

\* C10 witness: two calls with different creatives have settled, the last an updateOuter.
C10_Witness ==
  /\ Quiescent
  /\ Cardinality(TopLevel) >= 2
  /\ calls[LastCall].kind = "outer"
  /\ \E c \in TopLevel : calls[c].ad # calls[LastCall].ad
  /\ CurrentFrame.ad = patch(calls[LastCall].ad)

\* the navigation patch a story document written by `by` may carry
NavOfWriter(by) ==
  IF by = 0 THEN {"page-1"}
  ELSE IF ~calls[by].sw THEN {}
  ELSE IF calls[by].kind = "inner" THEN {"page-1"} ELSE {"cover"}

\* C7 (as amended): the navigation patch is written only by the constructor
\* (page-1) and by updates called with switchingContext true (page-1 for
\* updateInner, cover for updateOuter); an updateOuter with switchingContext
\* false writes nothing into the story iframe itself; and the inner update an
\* updateOuter starts rewrites the story iframe after it, without the patch
\* (a document without a literal <head> takes no patch at all).
C7_NavigationPatchOnlyWhenSwitching ==
  /\ \A g \in DOMAIN frames :
       /\ NavPages(frames[g].doc) \subseteq NavOfWriter(frames[g].by)
       /\ (\E i \in DOMAIN frames[g].doc : IsLiteralHead(frames[g].doc[i]))
            => NavPages(frames[g].doc) = NavOfWriter(frames[g].by)
       /\ frames[g].by # 0 =>
            (calls[frames[g].by].kind = "outer" => calls[frames[g].by].sw)
  /\ \A c \in DOMAIN calls :
       (calls[c].kind = "outer" /\ InnerOf(c) # 0 /\ calls[InnerOf(c)].status = "resolved")
         => \E g \in DOMAIN frames :
              /\ frames[g].by = InnerOf(c)
              /\ NavPages(frames[g].doc) = {}
              /\ \A h \in DOMAIN frames : frames[h].by = c => h < g

\* C7 witness: an updateOuter with switchingContext true and its inner update
\* have finished; the cover document was written and then replaced.
C7_Witness ==
  \E c \in DOMAIN calls :
    /\ calls[c].kind = "outer" /\ calls[c].sw
    /\ InnerOf(c) # 0 /\ calls[InnerOf(c)].status = "resolved"
    /\ Quiescent
    /\ \E h \in DOMAIN frames : frames[h].by = c /\ NavPages(frames[h].doc) = {"cover"}
    /\ CurrentFrame.by = InnerOf(c)
    /\ CurrentFrame.doc = storyCssPatch(calls[c].dirty)

\* C7 (as claimed): after updateOuter(dirty, dirtyInner, true) has run to
\* completion, the document last written to the story iframe is the one
\* patched for page 'cover'.
C7_CoverIsLastWritten ==
  \A c \in DOMAIN calls :
    ( /\ calls[c].kind = "outer" /\ calls[c].sw
      /\ WorkOf(c) \cap Running = {} /\ InnerOf(c) = Len(calls) )
      => NavPages(CurrentFrame.doc) = {"cover"}

\* C3: construction on a host without a (non-empty) data-template raises
\* before the wrapper iframe is rendered and before any iframe promise is
\* created; on a host with one it removes the attribute and keeps its value,
\* the sandbox placeholder replaced, as storyDoc.
C3_ConstructorTemplate ==
  /\ ctor = "threw" =>
       /\ hostTemplate = <<>>
       /\ ~rendered
       /\ storyIframe_ = "none" /\ adIframe_ = -1 /\ storyCtaLink_ = -1
       /\ frames = <<>>
  /\ ctor \notin {"new", "threw"} =>
       /\ hostTemplate # <<>>
       /\ ~hostHasTemplate
       /\ rendered
       /\ LastOuters = {} => SandboxFilled(hostTemplate, storyDoc)

\* C3 witness: the constructor has raised on a host whose data-template is empty.
C3_Witness == ctor = "threw" /\ ~rendered /\ ~hostHasTemplate /\ storyIframe_ = "none"

\* two calls were in flight at once
Overlapping(c, d) == c # d /\ (d \in calls[c].during \/ c \in calls[d].during)

\* call c wrote its creative into the ad iframe of a replaced story document
StaleWrite(c) == calls[c].adGen > 0 /\ calls[c].adGen # calls[c].adCur

\* the call whose creative the caller's last call hands in
LastWriter == IF calls[LastCall].kind = "inner" THEN LastCall ELSE InnerOf(LastCall)

\* C4: update calls are not mutually excluded: a creative lands in the ad
\* iframe of a replaced story document, or the creative finally shown is not
\* the last call's, only through a call that was in flight at the same time
\* (and such interleavings are reachable: C4_Witness).
C4_RaceNeedsOverlap ==
  /\ \A c \in DOMAIN calls :
       StaleWrite(c) =>
         \E g \in (calls[c].adGen + 1)..calls[c].adCur :
           frames[g].by # 0 /\ Overlapping(c, frames[g].by)
  /\ (Quiescent /\ TopLevel # {} /\ CurrentFrame.adBy # LastWriter)
       => \E c \in DOMAIN calls, d \in DOMAIN calls : Overlapping(c, d)

\* the caller's call that call c belongs to
TopOf(c) == IF calls[c].parent = 0 THEN c ELSE calls[c].parent

\* C4 witness: the caller made a second call before the first had settled,
\* and one has rewritten the story iframe between the other's lookup of the
\* ad iframe and its write of the creative.
C4_Witness ==
  \E c \in DOMAIN calls :
    /\ StaleWrite(c)
    /\ calls[c].sel = calls[c].adGen
    /\ \E g \in (calls[c].adGen + 1)..calls[c].adCur :
         LET d == frames[g].by
         IN /\ d # 0
            /\ TopOf(d) # TopOf(c)
            /\ Overlapping(TopOf(c), TopOf(d))

\* the value the document's meta tags of that name give: the content of the
\* last of them, the default when there is none or it has no content
MetaValue(docStr, name, default) ==
  LET at == {i \in DOMAIN docStr : docStr[i].tag = "meta" /\ docStr[i].name = name}
  IN IF at = {} THEN default
     ELSE LET last == CHOOSE i \in at : \A j \in at : j <= i
          IN IF docStr[last].content = Null THEN default ELSE docStr[last].content

\* C6: setMetaCtaLink applies the (type, url) of the document's amp-cta-type
\* and amp-cta-url meta tags, the last occurrence of each, and the defaults
\* LEARN_MORE and https://amp.dev where a value is missing, also when the
\* meta tag has no content attribute.
C6_CtaFromMetaOrDefault ==
  ctaPc \in {"done", "threw"} =>
    LET type == MetaValue(ctaDoc, "amp-cta-type", defaultCtaType)
        url == MetaValue(ctaDoc, "amp-cta-url", defaultCtaUrl)
    IN /\ ctaLink.href = url
       /\ (ctaPc = "threw") = (type \notin CtaKeys)
       /\ ctaPc = "done" => ctaLink.text = CTA_TYPES(type)

BundlingFailed == \E b \in outputBundles : bundles[b].write = "failed"
MinifyStarted == \E b \in outputBundles : bundles[b].min # "idle"

\* C5: minification starts only under PROD and only after the bundling step
\* has written every output bundle; when bundling fails minification never
\* starts, the failure goes to fatal and rollup is not tried again; the
\* bundling step writes exactly one file per entry of outputBundles.
C5_MinifyAfterBundling ==
  /\ MinifyStarted => (prod /\ \A b \in outputBundles : bundles[b].write = "written")
  /\ rollups <= 1
  /\ fatals = (IF buildPc = "fatal" THEN 1 ELSE 0)
  /\ \A b \in outputBundles :
       /\ bundles[b].built = (IF bundles[b].write = "written" THEN 1 ELSE 0)
       /\ bundles[b].minified = (IF bundles[b].min = "done" THEN 1 ELSE 0)
  /\ buildPc \in {"minifying", "done"} => \A b \in outputBundles : bundles[b].built = 1
  /\ buildPc = "done" => \A b \in outputBundles : bundles[b].min = (IF prod THEN "done" ELSE "idle")
  /\ (BundlingFailed \/ (buildPc \in {"failed", "fatal"} /\ ~MinifyStarted))
       => (~MinifyStarted /\ buildPc \in {"writing", "failed", "fatal"})
  /\ buildPc \in {"done", "fatal"} \/ ENABLED BuildNext

\* C5 witness: a PROD build has finished: every bundle written once, then minified.
C5_Witness ==
  /\ prod /\ buildPc = "done"
  /\ \A b \in outputBundles : bundles[b].built = 1 /\ bundles[b].min = "done"

====
